---- MODULE Spec2Model ----
(***************************************************************************)
(* The two-fighter round of street_fighter.py as a state machine.          *)
(*                                                                         *)
(* One frame of gameplay_loop is three steps: UpdateFighters (the event    *)
(* poll, the key snapshot and the four per-fighter updates), ResolveHits   *)
(* (the two attacks, then the two skills) and the knockout check, which    *)
(* either ends the round (Knockout) or renders and starts the next frame   *)
(* (NextFrame).  Cancel is the QUIT / ESCAPE branch of the event poll.     *)
(*                                                                         *)
(* energy is a float that only ever moves in steps of 0.3 and 50; it is    *)
(* kept in tenths (ENERGY_SCALE) so that the arithmetic is exact.          *)
(***************************************************************************)
EXTENDS Integers, Sequences, FiniteSets, TLC

(* ---------------- constants of the module (street_fighter.py:27-50) ---- *)
WIDTH == 960
HEIGHT == 540
GRAVITY == 1
GROUND_LEVEL == HEIGHT - 80
PLAYER_SPEED == 6
JUMP_STRENGTH == 18
ATTACK_RANGE == 80
ATTACK_COOLDOWN == 20
ATTACK_DAMAGE == 12
MAX_HEALTH == 100
DODGE_DURATION == 15
DODGE_COOLDOWN == 90
DODGE_SPEED == 12
SKILL_DAMAGE == 25
SKILL_COOLDOWN == 180
SKILL_ENERGY_COST == 50
MAX_ENERGY == 100
\* ENERGY_REGEN_RATE = 0.3, written in tenths of an energy point
ENERGY_SCALE == 10
ENERGY_REGEN_RATE == 3
\* Fighter.__post_init__: pygame.Rect(x, y, 60, 120)
RECT_WIDTH == 60
RECT_HEIGHT == 120
\* the vertical inset of the basic attack's hitbox (top + 20, height - 40)
ATTACK_INSET == 20

(* ---------------- bounds of the model --------------------------------- *)
\* frames a behaviour plays from its initial state
MaxFrames == 2
\* frames a behaviour of the long round plays
RunFrames == 36
\* frames a behaviour of the round of skills plays
SkillFrames == 362

VARIABLES
    players,       \* <<fighter 0, fighter 1>>, the records of class Fighter
    keys_pressed,  \* the frame's key snapshot: the set of keys held
    pc,            \* where gameplay_loop stands
    frame,         \* frames begun since the initial state
    winner,        \* index of the declared winner, or NoWinner
    hits,          \* what the frame's attempt_attack / attempt_special_skill returned
    file,          \* content of leaderboard.json
    io_log         \* leaderboard operations performed, in order

vars == <<players, keys_pressed, pc, frame, winner, hits, file, io_log>>

NoWinner == 2
Idx == {0, 1}
Other(i) == 1 - i

Max(a, b) == IF a >= b THEN a ELSE b
Min(a, b) == IF a <= b THEN a ELSE b

(* ---------------- ControlScheme and the key snapshot ------------------ *)
\* gameplay_loop's two ControlScheme objects
controls ==
    [i \in Idx |->
        IF i = 0
        THEN [left |-> "K_a", right |-> "K_d", jump |-> "K_w",
              attack |-> "K_f", dodge |-> "K_g", skill |-> "K_h"]
        ELSE [left |-> "K_LEFT", right |-> "K_RIGHT", jump |-> "K_UP",
              attack |-> "K_k", dodge |-> "K_l", skill |-> "K_SEMICOLON"]]

\* names[i] as entered on the name screen (both non-empty)
names == [i \in Idx |-> IF i = 0 THEN "ann" ELSE "bob"]

\* keys_pressed[key]
Held(keys, key) == key \in keys

(* ---------------- pygame.Rect ----------------------------------------- *)
Rect(x, y, w, h) == [left |-> x, top |-> y, width |-> w, height |-> h]
Right(r) == r.left + r.width
Bottom(r) == r.top + r.height

\* mutant of colliderect: rectangles whose edges only touch count as overlapping
colliderect_Inclusive(a, b) ==
    /\ a.left <= Right(b)
    /\ b.left <= Right(a)
    /\ a.top <= Bottom(b)
    /\ b.top <= Bottom(a)

\* Rect.colliderect: the rectangles share area; edges that only touch do not
colliderect(a, b) ==
    /\ a.left < Right(b)
    /\ b.left < Right(a)
    /\ a.top < Bottom(b)
    /\ b.top < Bottom(a)

\* self.rect of a fighter
rect(self) == Rect(self.x, self.y, RECT_WIDTH, RECT_HEIGHT)

\* max(0, min(self.rect.x, WIDTH - self.rect.width))
ClampX(x) == Max(0, Min(x, WIDTH - RECT_WIDTH))

(* ---------------- class Fighter --------------------------------------- *)
\* the dataclass defaults and __post_init__
Fighter(start_x, start_y, facing) ==
    [x |-> start_x, y |-> start_y, facing_right |-> facing,
     velocity_y |-> 0, on_ground |-> TRUE,
     attack_cooldown |-> 0, health |-> MAX_HEALTH,
     is_dodging |-> FALSE, dodge_timer |-> 0, dodge_cooldown |-> 0,
     energy |-> MAX_ENERGY * ENERGY_SCALE, skill_cooldown |-> 0]

\* mutant of apply_gravity: a fighter whose feet just reach the ground line
\* has not landed
apply_gravity_StrictLanding(self) ==
    IF ~self.on_ground
    THEN LET v == self.velocity_y + GRAVITY
             y == self.y + v
         IN  IF y + RECT_HEIGHT > GROUND_LEVEL
             THEN [self EXCEPT !.y = GROUND_LEVEL - RECT_HEIGHT,
                               !.velocity_y = 0, !.on_ground = TRUE]
             ELSE [self EXCEPT !.y = y, !.velocity_y = v]
    ELSE self

\* mutant of apply_gravity: the fighter moves before the velocity is updated
apply_gravity_MovesFirst(self) ==
    IF ~self.on_ground
    THEN LET y == self.y + self.velocity_y
             v == self.velocity_y + GRAVITY
         IN  IF y + RECT_HEIGHT >= GROUND_LEVEL
             THEN [self EXCEPT !.y = GROUND_LEVEL - RECT_HEIGHT,
                               !.velocity_y = 0, !.on_ground = TRUE]
             ELSE [self EXCEPT !.y = y, !.velocity_y = v]
    ELSE self

\* Fighter.apply_gravity; velocity_y is an integer throughout (GRAVITY and
\* JUMP_STRENGTH are), so int(self.velocity_y) is the value itself
apply_gravity(self) ==
    IF ~self.on_ground
    THEN LET v == self.velocity_y + GRAVITY
             y == self.y + v
         IN  IF y + RECT_HEIGHT >= GROUND_LEVEL
             THEN [self EXCEPT !.y = GROUND_LEVEL - RECT_HEIGHT,
                               !.velocity_y = 0, !.on_ground = TRUE]
             ELSE [self EXCEPT !.y = y, !.velocity_y = v]
    ELSE self

\* mutant of handle_movement: the jump does not ask for the ground
handle_movement_JumpInAir(self, c, keys) ==
    IF self.is_dodging
    THEN self
    ELSE LET l == Held(keys, c.left)
             r == Held(keys, c.right)
             x1 == IF l THEN self.x - PLAYER_SPEED ELSE self.x
             x2 == IF r THEN x1 + PLAYER_SPEED ELSE x1
             f == IF r THEN TRUE ELSE IF l THEN FALSE ELSE self.facing_right
             m == [self EXCEPT !.x = ClampX(x2), !.facing_right = f]
         IN  IF Held(keys, c.jump)
             THEN [m EXCEPT !.on_ground = FALSE, !.velocity_y = -JUMP_STRENGTH]
             ELSE m

\* mutant of handle_movement: a dodging fighter still walks and jumps
handle_movement_WhileDodging(self, c, keys) ==
    LET l == Held(keys, c.left)
        r == Held(keys, c.right)
        x1 == IF l THEN self.x - PLAYER_SPEED ELSE self.x
        x2 == IF r THEN x1 + PLAYER_SPEED ELSE x1
        f == IF r THEN TRUE ELSE IF l THEN FALSE ELSE self.facing_right
        m == [self EXCEPT !.x = ClampX(x2), !.facing_right = f]
    IN  IF Held(keys, c.jump) /\ m.on_ground
        THEN [m EXCEPT !.on_ground = FALSE, !.velocity_y = -JUMP_STRENGTH]
        ELSE m

\* mutant of handle_movement: the position is clamped after each step
handle_movement_ClampEachStep(self, c, keys) ==
    IF self.is_dodging
    THEN self
    ELSE LET l == Held(keys, c.left)
             r == Held(keys, c.right)
             x1 == IF l THEN ClampX(self.x - PLAYER_SPEED) ELSE self.x
             x2 == IF r THEN ClampX(x1 + PLAYER_SPEED) ELSE x1
             f == IF r THEN TRUE ELSE IF l THEN FALSE ELSE self.facing_right
             m == [self EXCEPT !.x = x2, !.facing_right = f]
         IN  IF Held(keys, c.jump) /\ m.on_ground
             THEN [m EXCEPT !.on_ground = FALSE, !.velocity_y = -JUMP_STRENGTH]
             ELSE m

\* Fighter.handle_movement
handle_movement(self, c, keys) ==
    IF self.is_dodging
    THEN self
    ELSE LET l == Held(keys, c.left)
             r == Held(keys, c.right)
             x1 == IF l THEN self.x - PLAYER_SPEED ELSE self.x
             x2 == IF r THEN x1 + PLAYER_SPEED ELSE x1
             f == IF r THEN TRUE ELSE IF l THEN FALSE ELSE self.facing_right
             m == [self EXCEPT !.x = ClampX(x2), !.facing_right = f]
         IN  IF Held(keys, c.jump) /\ m.on_ground
             THEN [m EXCEPT !.on_ground = FALSE, !.velocity_y = -JUMP_STRENGTH]
             ELSE m

\* mutant of handle_dodge: a dodge may start in the air
handle_dodge_NoGroundCheck(self, c, keys) ==
    LET cd == IF self.dodge_cooldown > 0
              THEN self.dodge_cooldown - 1 ELSE self.dodge_cooldown
        s == [self EXCEPT !.dodge_cooldown = cd]
    IN  IF s.is_dodging
        THEN LET t == s.dodge_timer - 1
                 dodge_direction == IF s.facing_right THEN 1 ELSE -1
                 x == ClampX(s.x + DODGE_SPEED * dodge_direction)
             IN  [s EXCEPT !.dodge_timer = t, !.x = x,
                           !.is_dodging = ~(t <= 0)]
        ELSE IF Held(keys, c.dodge) /\ s.dodge_cooldown = 0
             THEN [s EXCEPT !.is_dodging = TRUE,
                            !.dodge_timer = DODGE_DURATION,
                            !.dodge_cooldown = DODGE_COOLDOWN]
             ELSE s

\* mutant of handle_dodge: the dodge step is not clamped to the arena
handle_dodge_NoClamp(self, c, keys) ==
    LET cd == IF self.dodge_cooldown > 0
              THEN self.dodge_cooldown - 1 ELSE self.dodge_cooldown
        s == [self EXCEPT !.dodge_cooldown = cd]
    IN  IF s.is_dodging
        THEN LET t == s.dodge_timer - 1
                 dodge_direction == IF s.facing_right THEN 1 ELSE -1
                 x == s.x + DODGE_SPEED * dodge_direction
             IN  [s EXCEPT !.dodge_timer = t, !.x = x,
                           !.is_dodging = ~(t <= 0)]
        ELSE IF Held(keys, c.dodge) /\ s.dodge_cooldown = 0 /\ s.on_ground
             THEN [s EXCEPT !.is_dodging = TRUE,
                            !.dodge_timer = DODGE_DURATION,
                            !.dodge_cooldown = DODGE_COOLDOWN]
             ELSE s

\* mutant of handle_dodge: the cooldown does not run during the dodge
handle_dodge_CooldownWaits(self, c, keys) ==
    IF self.is_dodging
    THEN LET t == self.dodge_timer - 1
             dodge_direction == IF self.facing_right THEN 1 ELSE -1
             x == ClampX(self.x + DODGE_SPEED * dodge_direction)
         IN  [self EXCEPT !.dodge_timer = t, !.x = x,
                          !.is_dodging = ~(t <= 0)]
    ELSE LET cd == IF self.dodge_cooldown > 0
                   THEN self.dodge_cooldown - 1 ELSE self.dodge_cooldown
             s == [self EXCEPT !.dodge_cooldown = cd]
         IN  IF Held(keys, c.dodge) /\ s.dodge_cooldown = 0 /\ s.on_ground
             THEN [s EXCEPT !.is_dodging = TRUE,
                            !.dodge_timer = DODGE_DURATION,
                            !.dodge_cooldown = DODGE_COOLDOWN]
             ELSE s

\* mutant of handle_dodge: the timer is tested before it is lowered
handle_dodge_LateEnd(self, c, keys) ==
    LET cd == IF self.dodge_cooldown > 0
              THEN self.dodge_cooldown - 1 ELSE self.dodge_cooldown
        s == [self EXCEPT !.dodge_cooldown = cd]
    IN  IF s.is_dodging
        THEN LET t == s.dodge_timer - 1
                 dodge_direction == IF s.facing_right THEN 1 ELSE -1
                 x == ClampX(s.x + DODGE_SPEED * dodge_direction)
             IN  [s EXCEPT !.dodge_timer = t, !.x = x,
                           !.is_dodging = ~(s.dodge_timer <= 0)]
        ELSE IF Held(keys, c.dodge) /\ s.dodge_cooldown = 0 /\ s.on_ground
             THEN [s EXCEPT !.is_dodging = TRUE,
                            !.dodge_timer = DODGE_DURATION,
                            !.dodge_cooldown = DODGE_COOLDOWN]
             ELSE s

\* Fighter.handle_dodge
handle_dodge(self, c, keys) ==
    LET cd == IF self.dodge_cooldown > 0
              THEN self.dodge_cooldown - 1 ELSE self.dodge_cooldown
        s == [self EXCEPT !.dodge_cooldown = cd]
    IN  IF s.is_dodging
        THEN LET t == s.dodge_timer - 1
                 dodge_direction == IF s.facing_right THEN 1 ELSE -1
                 x == ClampX(s.x + DODGE_SPEED * dodge_direction)
             IN  [s EXCEPT !.dodge_timer = t, !.x = x,
                           !.is_dodging = ~(t <= 0)]
        ELSE IF Held(keys, c.dodge) /\ s.dodge_cooldown = 0 /\ s.on_ground
             THEN [s EXCEPT !.is_dodging = TRUE,
                            !.dodge_timer = DODGE_DURATION,
                            !.dodge_cooldown = DODGE_COOLDOWN]
             ELSE s

\* mutant of regenerate_energy: the sum is not capped
regenerate_energy_NoCap(self) ==
    IF self.energy < MAX_ENERGY * ENERGY_SCALE
    THEN [self EXCEPT !.energy = self.energy + ENERGY_REGEN_RATE]
    ELSE self

\* mutant of regenerate_energy: the sum is truncated to a whole number
regenerate_energy_Truncates(self) ==
    IF self.energy < MAX_ENERGY * ENERGY_SCALE
    THEN [self EXCEPT !.energy =
            (Min(self.energy + ENERGY_REGEN_RATE, MAX_ENERGY * ENERGY_SCALE)
                \div ENERGY_SCALE) * ENERGY_SCALE]
    ELSE self

\* Fighter.regenerate_energy
regenerate_energy(self) ==
    IF self.energy < MAX_ENERGY * ENERGY_SCALE
    THEN [self EXCEPT !.energy = Min(self.energy + ENERGY_REGEN_RATE,
                                     MAX_ENERGY * ENERGY_SCALE)]
    ELSE self

\* the hitbox of the basic attack
attack_rect(self) ==
    IF self.facing_right
    THEN Rect(Right(rect(self)), self.y + ATTACK_INSET,
              ATTACK_RANGE, RECT_HEIGHT - 2 * ATTACK_INSET)
    ELSE Rect(self.x - ATTACK_RANGE, self.y + ATTACK_INSET,
              ATTACK_RANGE, RECT_HEIGHT - 2 * ATTACK_INSET)

\* mutant of attempt_attack: the cooldown starts only when the attack lands
attempt_attack_CooldownOnHit(self, opponent, c, keys) ==
    IF self.attack_cooldown > 0
    THEN [self |-> [self EXCEPT !.attack_cooldown = self.attack_cooldown - 1],
          hit |-> FALSE]
    ELSE IF /\ Held(keys, c.attack)
            /\ colliderect(attack_rect(self), rect(opponent))
            /\ ~opponent.is_dodging
         THEN [self |-> [self EXCEPT !.attack_cooldown = ATTACK_COOLDOWN],
               hit |-> TRUE]
         ELSE [self |-> self, hit |-> FALSE]

\* mutant of attempt_attack: the opponent's dodge is not looked at
attempt_attack_IgnoresDodge(self, opponent, c, keys) ==
    IF self.attack_cooldown > 0
    THEN [self |-> [self EXCEPT !.attack_cooldown = self.attack_cooldown - 1],
          hit |-> FALSE]
    ELSE IF Held(keys, c.attack)
         THEN [self |-> [self EXCEPT !.attack_cooldown = ATTACK_COOLDOWN],
               hit |-> colliderect(attack_rect(self), rect(opponent))]
         ELSE [self |-> self, hit |-> FALSE]

\* mutant of attempt_attack: the call that brings the cooldown to 0 goes on
\* to the attack instead of returning
attempt_attack_NoReturnAtZero(self, opponent, c, keys) ==
    IF self.attack_cooldown > 1
    THEN [self |-> [self EXCEPT !.attack_cooldown = self.attack_cooldown - 1],
          hit |-> FALSE]
    ELSE IF Held(keys, c.attack)
         THEN [self |-> [self EXCEPT !.attack_cooldown = ATTACK_COOLDOWN],
               hit |-> colliderect(attack_rect(self), rect(opponent))
                       /\ ~opponent.is_dodging]
         ELSE [self |-> [self EXCEPT !.attack_cooldown = 0], hit |-> FALSE]

\* mutant of attempt_attack: a fighter that is already down does not attack
attempt_attack_NotWhenDown(self, opponent, c, keys) ==
    IF self.health <= 0
    THEN [self |-> self, hit |-> FALSE]
    ELSE IF self.attack_cooldown > 0
         THEN [self |-> [self EXCEPT !.attack_cooldown = self.attack_cooldown - 1],
               hit |-> FALSE]
         ELSE IF Held(keys, c.attack)
              THEN [self |-> [self EXCEPT !.attack_cooldown = ATTACK_COOLDOWN],
                    hit |-> colliderect(attack_rect(self), rect(opponent))
                            /\ ~opponent.is_dodging]
              ELSE [self |-> self, hit |-> FALSE]

\* Fighter.attempt_attack: the attacker afterwards and the value returned
attempt_attack(self, opponent, c, keys) ==
    IF self.attack_cooldown > 0
    THEN [self |-> [self EXCEPT !.attack_cooldown = self.attack_cooldown - 1],
          hit |-> FALSE]
    ELSE IF Held(keys, c.attack)
         THEN [self |-> [self EXCEPT !.attack_cooldown = ATTACK_COOLDOWN],
               hit |-> colliderect(attack_rect(self), rect(opponent))
                       /\ ~opponent.is_dodging]
         ELSE [self |-> self, hit |-> FALSE]

\* skill_range = ATTACK_RANGE * 1.5, truncated by pygame.Rect to an int
skill_range == (ATTACK_RANGE * 3) \div 2

\* the hitbox of the special skill
skill_rect(self) ==
    IF self.facing_right
    THEN Rect(Right(rect(self)), self.y, skill_range, RECT_HEIGHT)
    ELSE Rect(self.x - skill_range, self.y, skill_range, RECT_HEIGHT)

\* mutant of attempt_special_skill: the energy is not compared with the cost
attempt_special_skill_NoEnergyCheck(self, opponent, c, keys) ==
    IF self.skill_cooldown > 0
    THEN [self |-> [self EXCEPT !.skill_cooldown = self.skill_cooldown - 1],
          hit |-> FALSE]
    ELSE IF Held(keys, c.skill)
         THEN [self |-> [self EXCEPT
                            !.energy = self.energy - SKILL_ENERGY_COST * ENERGY_SCALE,
                            !.skill_cooldown = SKILL_COOLDOWN],
               hit |-> colliderect(skill_rect(self), rect(opponent))
                       /\ ~opponent.is_dodging]
         ELSE [self |-> self, hit |-> FALSE]

\* mutant of attempt_special_skill: the energy is only paid for a skill that hits
attempt_special_skill_PayOnHit(self, opponent, c, keys) ==
    IF self.skill_cooldown > 0
    THEN [self |-> [self EXCEPT !.skill_cooldown = self.skill_cooldown - 1],
          hit |-> FALSE]
    ELSE IF /\ Held(keys, c.skill)
            /\ self.energy >= SKILL_ENERGY_COST * ENERGY_SCALE
            /\ self.skill_cooldown = 0
         THEN IF colliderect(skill_rect(self), rect(opponent)) /\ ~opponent.is_dodging
              THEN [self |-> [self EXCEPT
                                !.energy = self.energy - SKILL_ENERGY_COST * ENERGY_SCALE,
                                !.skill_cooldown = SKILL_COOLDOWN],
                    hit |-> TRUE]
              ELSE [self |-> [self EXCEPT !.skill_cooldown = SKILL_COOLDOWN],
                    hit |-> FALSE]
         ELSE [self |-> self, hit |-> FALSE]

\* Fighter.attempt_special_skill: the fighter afterwards and the value returned
attempt_special_skill(self, opponent, c, keys) ==
    IF self.skill_cooldown > 0
    THEN [self |-> [self EXCEPT !.skill_cooldown = self.skill_cooldown - 1],
          hit |-> FALSE]
    ELSE IF /\ Held(keys, c.skill)
            /\ self.energy >= SKILL_ENERGY_COST * ENERGY_SCALE
            /\ self.skill_cooldown = 0
         THEN [self |-> [self EXCEPT
                            !.energy = self.energy - SKILL_ENERGY_COST * ENERGY_SCALE,
                            !.skill_cooldown = SKILL_COOLDOWN],
               hit |-> colliderect(skill_rect(self), rect(opponent))
                       /\ ~opponent.is_dodging]
         ELSE [self |-> self, hit |-> FALSE]

(* ---------------- the leaderboard store -------------------------------- *)
\* leaderboard.json: absent, unreadable (open fails or the text is not JSON),
\* JSON of another shape than a list of name/wins objects, or such a list
AbsentFile == [kind |-> "absent", entries |-> <<>>]
UnreadableFile == [kind |-> "unreadable", entries |-> <<>>]
WrongShapeFile == [kind |-> "wrong_shape", entries |-> <<>>]
ListFile(es) == [kind |-> "list", entries |-> es]

Entry(n, w) == [name |-> n, wins |-> w]

\* e placed behind every entry of s that has at least as many wins
RECURSIVE InsertByWins(_, _)
InsertByWins(e, s) ==
    IF s = <<>> THEN <<e>>
    ELSE IF Head(s).wins >= e.wins
         THEN <<Head(s)>> \o InsertByWins(e, Tail(s))
         ELSE <<e>> \o s

\* sorted(..., key=wins, reverse=True): descending by wins, and stable
RECURSIVE SortByWins(_)
SortByWins(s) ==
    IF s = <<>> THEN <<>>
    ELSE InsertByWins(s[Len(s)], SortByWins(SubSeq(s, 1, Len(s) - 1)))

\* load_leaderboard: the list returned, or raised when sorted() meets data
\* that is not a list of objects
load_leaderboard(f) ==
    CASE f.kind = "absent" -> [raised |-> FALSE, entries |-> <<>>]
      [] f.kind = "unreadable" -> [raised |-> FALSE, entries |-> <<>>]
      [] f.kind = "wrong_shape" -> [raised |-> TRUE, entries |-> <<>>]
      [] OTHER -> [raised |-> FALSE, entries |-> SortByWins(f.entries)]

\* how the write of save_leaderboard ends: done, open() failed (the file
\* is left as it was), or the write failed after open() truncated the file
SaveOutcomes == {"ok", "open_failed", "write_failed"}

\* save_leaderboard: the file afterwards; an OSError is swallowed
save_leaderboard(entries, f, outcome) ==
    CASE outcome = "ok" -> ListFile(entries)
      [] outcome = "open_failed" -> f
      [] OTHER -> UnreadableFile

\* the for/else of update_leaderboard: first entry of that name gets a win,
\* or a new entry with one win is appended
RECURSIVE RecordWin(_, _)
RecordWin(s, n) ==
    IF s = <<>> THEN <<Entry(n, 1)>>
    ELSE IF Head(s).name = n
         THEN <<Entry(n, Head(s).wins + 1)>> \o Tail(s)
         ELSE <<Head(s)>> \o RecordWin(Tail(s), n)

\* update_leaderboard: whether it raised, the list returned, the file afterwards
update_leaderboard(winner_name, f, outcome) ==
    LET l == load_leaderboard(f)
    IN  IF l.raised
        THEN [raised |-> TRUE, leaderboard |-> <<>>, file |-> f]
        ELSE LET b == SortByWins(RecordWin(l.entries, winner_name))
             IN  [raised |-> FALSE, leaderboard |-> b,
                  file |-> save_leaderboard(b, f, outcome)]

\* the leaderboard operations a call of update_leaderboard performs
IoOp(op, arg) == [op |-> op, arg |-> arg]
UpdateLog(winner_name, f) ==
    IF load_leaderboard(f).raised
    THEN <<IoOp("update_leaderboard", winner_name), IoOp("load", "")>>
    ELSE <<IoOp("update_leaderboard", winner_name), IoOp("load", ""),
           IoOp("save", "")>>

(* ---------------- one frame of gameplay_loop -------------------------- *)
\* movement -> gravity -> dodge -> energy regen, for one fighter
update_fighter(self, c, keys) ==
    regenerate_energy(handle_dodge(apply_gravity(handle_movement(self, c, keys)),
                                   c, keys))

\* mutant of Damage: the amount is added instead of subtracted
Damage_Adds(self, hit, amount) ==
    IF hit THEN [self EXCEPT !.health = self.health + amount] ELSE self

\* if attempt(...): opponent.health -= amount
Damage(self, hit, amount) ==
    IF hit THEN [self EXCEPT !.health = self.health - amount] ELSE self

\* mutant of resolve_attacks: a fighter that was just hit does not attack
resolve_attacks_HitCancels(ps, keys) ==
    LET a0 == attempt_attack(ps[0], ps[1], controls[0], keys)
        p1 == Damage(ps[1], a0.hit, ATTACK_DAMAGE)
        a1 == IF a0.hit THEN [self |-> p1, hit |-> FALSE]
              ELSE attempt_attack(p1, a0.self, controls[1], keys)
        p0 == Damage(a0.self, a1.hit, ATTACK_DAMAGE)
    IN  [players |-> [i \in Idx |-> IF i = 0 THEN p0 ELSE a1.self],
         hit |-> [i \in Idx |-> IF i = 0 THEN a0.hit ELSE a1.hit]]

\* players[0].attempt_attack(players[1]) then players[1].attempt_attack(players[0]):
\* the fighters afterwards and the two values returned
resolve_attacks(ps, keys) ==
    LET a0 == attempt_attack(ps[0], ps[1], controls[0], keys)
        p1 == Damage(ps[1], a0.hit, ATTACK_DAMAGE)
        a1 == attempt_attack(p1, a0.self, controls[1], keys)
        p0 == Damage(a0.self, a1.hit, ATTACK_DAMAGE)
    IN  [players |-> [i \in Idx |-> IF i = 0 THEN p0 ELSE a1.self],
         hit |-> [i \in Idx |-> IF i = 0 THEN a0.hit ELSE a1.hit]]

\* mutant of resolve_skills: the damage of a skill goes to the fighter that used it
resolve_skills_HitsSelf(ps, keys) ==
    LET s0 == attempt_special_skill(ps[0], ps[1], controls[0], keys)
        p0 == Damage(s0.self, s0.hit, SKILL_DAMAGE)
        s1 == attempt_special_skill(ps[1], p0, controls[1], keys)
        p1 == Damage(s1.self, s1.hit, SKILL_DAMAGE)
    IN  [players |-> [i \in Idx |-> IF i = 0 THEN p0 ELSE p1],
         hit |-> [i \in Idx |-> IF i = 0 THEN s0.hit ELSE s1.hit]]

\* the same order for the special skills
resolve_skills(ps, keys) ==
    LET s0 == attempt_special_skill(ps[0], ps[1], controls[0], keys)
        p1 == Damage(ps[1], s0.hit, SKILL_DAMAGE)
        s1 == attempt_special_skill(p1, s0.self, controls[1], keys)
        p0 == Damage(s0.self, s1.hit, SKILL_DAMAGE)
    IN  [players |-> [i \in Idx |-> IF i = 0 THEN p0 ELSE s1.self],
         hit |-> [i \in Idx |-> IF i = 0 THEN s0.hit ELSE s1.hit]]

\* the hit resolution of one frame
resolve_hits(ps, keys) ==
    LET a == resolve_attacks(ps, keys)
        k == resolve_skills(a.players, keys)
    IN  [players |-> k.players, hits |-> [attack |-> a.hit, skill |-> k.hit]]

\* no attempt made yet in this frame
NoHits == [attack |-> [i \in Idx |-> FALSE], skill |-> [i \in Idx |-> FALSE]]

\* for fighter in players: if fighter.health <= 0 -- the first one found
KnockedOut(ps) == \E i \in Idx : ps[i].health <= 0
\* mutant of Loser: fighter 1 is looked at first
Loser_LastFirst(ps) == IF ps[1].health <= 0 THEN 1 ELSE 0
Loser(ps) == IF ps[0].health <= 0 THEN 0 ELSE 1

(* ---------------- initial states --------------------------------------- *)
\* start_pos of the two fighters: (WIDTH // 4, GROUND_LEVEL - 120) and
\* (3 * WIDTH // 4, GROUND_LEVEL - 120)
StandY == GROUND_LEVEL - RECT_HEIGHT
Opening == [i \in Idx |-> IF i = 0 THEN Fighter(WIDTH \div 4, StandY, TRUE)
                          ELSE Fighter((3 * WIDTH) \div 4, StandY, FALSE)]

\* The fighters after walking up to each other (30 and 40 frames of walking):
\* each stands inside the other's attack and skill hitbox.
Clinch == [i \in Idx |-> IF i = 0 THEN Fighter(420, StandY, TRUE)
                         ELSE Fighter(480, StandY, FALSE)]

With(ps, f0, f1) == [i \in Idx |-> IF i = 0 THEN f0 ELSE f1]

(* States of a round in progress, at the start of a frame.  A round has no *)
(* time limit and the timers of a fighter run independently of each other  *)
(* and of the opponent, so each is reached from Opening by the key         *)
(* sequence described with it.                                             *)
Scenes == {
    \* fighter construction
    Opening,
    \* both walked to the middle
    Clinch,
    \* eight basic attacks landed on each side (100 - 8 * 12), then all
    \* cooldowns ran out and the energy refilled
    With(Clinch, [Clinch[0] EXCEPT !.health = 4], [Clinch[1] EXCEPT !.health = 4]),
    \* fighter 0 took three skills and two attacks (100 - 75 - 24),
    \* fighter 1 seven attacks (100 - 84)
    With(Clinch, [Clinch[0] EXCEPT !.health = 1], [Clinch[1] EXCEPT !.health = 16]),
    \* each walked to the wall behind it
    With(Clinch, Fighter(0, StandY, FALSE), Fighter(WIDTH - RECT_WIDTH, StandY, TRUE)),
    \* fighter 0 used the skill 179, dodged 89 and attacked 19 frames ago,
    \* fighter 1 used the skill 166, dodged 88 and attacked 18 frames ago,
    \* all while still out of reach, and both kept walking
    With(Clinch,
         [Clinch[0] EXCEPT !.attack_cooldown = 1, !.dodge_cooldown = 1,
                           !.skill_cooldown = 1],
         [Clinch[1] EXCEPT !.attack_cooldown = 2, !.dodge_cooldown = 2,
                           !.skill_cooldown = 14, !.energy = 998]),
    \* fighter 0 jumped in the previous frame, fighter 1 34 frames ago
    With(Clinch,
         [Clinch[0] EXCEPT !.on_ground = FALSE, !.velocity_y = -17, !.y = StandY - 17],
         [Clinch[1] EXCEPT !.on_ground = FALSE, !.velocity_y = 16, !.y = StandY - 17]),
    \* fighter 0 started a dodge 13 frames ago at x = 264, fighter 1 14 frames
    \* ago at x = 648
    With(Clinch,
         [Clinch[0] EXCEPT !.is_dodging = TRUE, !.dodge_timer = 2,
                           !.dodge_cooldown = 77],
         [Clinch[1] EXCEPT !.is_dodging = TRUE, !.dodge_timer = 1,
                           !.dodge_cooldown = 76]),
    \* both used the skill in the previous frame, out of reach
    With(Opening,
         [Opening[0] EXCEPT !.skill_cooldown = 180, !.energy = 500],
         [Opening[1] EXCEPT !.skill_cooldown = 180, !.energy = 500])
}

\* leaderboard.json before the round
Stores == {
    AbsentFile, UnreadableFile, WrongShapeFile,
    ListFile(<<Entry("cat", 3), Entry("bob", 2), Entry("ann", 2)>>)
}

Init ==
    /\ players \in Scenes
    /\ file \in Stores
    /\ keys_pressed = {}
    /\ pc = "events"
    /\ frame = 0
    /\ winner = NoWinner
    /\ hits = NoHits
    /\ io_log = <<>>

(* ---------------- key snapshots ---------------------------------------- *)
Actions == {"left", "right", "jump", "attack", "dodge", "skill"}

\* the combinations of its six keys a player holds in a frame
KeyChoices == {
    {}, {"left"}, {"right"}, {"jump", "dodge"}, {"dodge"}, {"attack", "skill"}
}

KeysOf(i, as) == {controls[i][a] : a \in as}
KeySnapshots == {KeysOf(0, a0) \cup KeysOf(1, a1) : a0 \in KeyChoices, a1 \in KeyChoices}

(* ---------------- gameplay_loop ---------------------------------------- *)
\* mutant of Cancel: the events are polled after the fighters were updated
Cancel_AfterUpdate ==
    /\ pc = "events"
    /\ pc' = "cancelled"
    /\ \E keys \in KeySnapshots :
        players' = [i \in Idx |-> update_fighter(players[i], controls[i], keys)]
    /\ UNCHANGED <<keys_pressed, frame, winner, hits, file, io_log>>

\* a QUIT or K_ESCAPE event: return None
Cancel ==
    /\ pc = "events"
    /\ pc' = "cancelled"
    /\ UNCHANGED <<players, keys_pressed, frame, winner, hits, file, io_log>>

\* no such event: the key snapshot and the per-fighter updates
UpdateFighters ==
    /\ pc = "events"
    /\ frame < MaxFrames
    /\ \E keys \in KeySnapshots :
        /\ keys_pressed' = keys
        /\ players' = [i \in Idx |-> update_fighter(players[i], controls[i], keys)]
    /\ pc' = "resolve"
    /\ frame' = frame + 1
    /\ UNCHANGED <<winner, hits, file, io_log>>

\* attacks in both directions, then skills in both directions
ResolveHits ==
    /\ pc = "resolve"
    /\ players' = resolve_hits(players, keys_pressed).players
    /\ hits' = resolve_hits(players, keys_pressed).hits
    /\ pc' = "knockout"
    /\ UNCHANGED <<keys_pressed, frame, winner, file, io_log>>

\* a fighter is down: the other one wins and the leaderboard is updated
Knockout ==
    /\ pc = "knockout"
    /\ KnockedOut(players)
    /\ winner' = Other(Loser(players))
    /\ \E outcome \in SaveOutcomes :
        LET u == update_leaderboard(names[Other(Loser(players))], file, outcome)
        IN  /\ file' = u.file
            /\ pc' = IF u.raised THEN "crashed" ELSE "done"
    /\ io_log' = io_log \o UpdateLog(names[Other(Loser(players))], file)
    /\ UNCHANGED <<players, keys_pressed, frame, hits>>

\* mutant of NextFrame: the loop goes on whatever the health
NextFrame_Unchecked ==
    /\ pc = "knockout"
    /\ pc' = "events"
    /\ keys_pressed' = {}
    /\ hits' = NoHits
    /\ UNCHANGED <<players, frame, winner, file, io_log>>

\* nobody is down: render, tick, next iteration
NextFrame ==
    /\ pc = "knockout"
    /\ ~KnockedOut(players)
    /\ pc' = "events"
    /\ keys_pressed' = {}
    /\ hits' = NoHits
    /\ UNCHANGED <<players, frame, winner, file, io_log>>

Next == Cancel \/ UpdateFighters \/ ResolveHits \/ Knockout \/ NextFrame

Spec == Init /\ [][Next]_vars

(* ---------------- single method calls ---------------------------------- *)
(* A second specification: one method of Fighter called on players[0],     *)
(* with players[1] as the opponent, from any values of the dataclass       *)
(* fields the method reads (a Fighter can be built with any of them).      *)

\* (y, velocity_y, on_ground): standing, rising, falling
CallVertical == {<<StandY, 0, TRUE>>, <<StandY - 17, -17, FALSE>>,
                 <<StandY - 17, 16, FALSE>>}
\* (is_dodging, dodge_timer, dodge_cooldown)
CallDodge == {<<FALSE, 0, 0>>, <<FALSE, 0, 1>>, <<FALSE, 0, 2>>,
              <<TRUE, 1, 76>>, <<TRUE, 15, 90>>}
\* (energy, skill_cooldown)
CallSkill == {<<0, 0>>, <<499, 0>>, <<500, 0>>, <<1000, 0>>,
              <<998, 14>>, <<500, 180>>, <<499, 1>>}

CallSelves ==
    {[Clinch[0] EXCEPT !.x = x, !.facing_right = f,
                       !.y = v[1], !.velocity_y = v[2], !.on_ground = v[3],
                       !.attack_cooldown = a,
                       !.is_dodging = d[1], !.dodge_timer = d[2],
                       !.dodge_cooldown = d[3],
                       !.energy = e[1], !.skill_cooldown = e[2]] :
        x \in {0, 420, WIDTH - RECT_WIDTH}, f \in BOOLEAN, v \in CallVertical,
        a \in {0, 1}, d \in CallDodge, e \in CallSkill}

\* an opponent in reach, one in reach but dodging, one out of reach (whose
\* right edge is where the skill hitbox of a left-facing fighter at the right
\* wall begins), and three whose rectangle touches the edge of a hitbox of a
\* fighter at x = 420: the attack's and the skill's when it faces right, the
\* attack's when it faces left
CallOpponents ==
    {Clinch[1], [Clinch[1] EXCEPT !.is_dodging = TRUE, !.dodge_timer = 3,
                                  !.dodge_cooldown = 78],
     Opening[1],
     [Clinch[1] EXCEPT !.x = 420 + RECT_WIDTH + ATTACK_RANGE],
     [Clinch[1] EXCEPT !.x = 420 + RECT_WIDTH + skill_range],
     [Clinch[1] EXCEPT !.x = 420 - ATTACK_RANGE - RECT_WIDTH]}

InitCalls ==
    /\ players \in {With(Clinch, s, o) : s \in CallSelves, o \in CallOpponents}
    /\ keys_pressed \in SUBSET KeysOf(0, Actions)
    /\ pc = "call"
    /\ frame = 0
    /\ winner = NoWinner
    /\ hits = NoHits
    /\ file = AbsentFile
    /\ io_log = <<>>

Returned(method, self, h) ==
    /\ pc = "call"
    /\ pc' = method
    /\ players' = [players EXCEPT ![0] = self]
    /\ hits' = h
    /\ UNCHANGED <<keys_pressed, frame, winner, file, io_log>>

CallHandleMovement ==
    Returned("handle_movement",
             handle_movement(players[0], controls[0], keys_pressed), hits)

CallApplyGravity ==
    Returned("apply_gravity", apply_gravity(players[0]), hits)

CallHandleDodge ==
    Returned("handle_dodge",
             handle_dodge(players[0], controls[0], keys_pressed), hits)

CallRegenerateEnergy ==
    Returned("regenerate_energy", regenerate_energy(players[0]), hits)

CallAttemptAttack ==
    LET r == attempt_attack(players[0], players[1], controls[0], keys_pressed)
    IN  Returned("attempt_attack", r.self, [hits EXCEPT !.attack[0] = r.hit])

CallAttemptSpecialSkill ==
    LET r == attempt_special_skill(players[0], players[1], controls[0], keys_pressed)
    IN  Returned("attempt_special_skill", r.self, [hits EXCEPT !.skill[0] = r.hit])

NextCalls ==
    \/ CallHandleMovement
    \/ CallApplyGravity
    \/ CallHandleDodge
    \/ CallRegenerateEnergy
    \/ CallAttemptAttack
    \/ CallAttemptSpecialSkill

SpecCalls == InitCalls /\ [][NextCalls]_vars

(* ---------------- a round played on ------------------------------------ *)
(* A third specification: the frames of gameplay_loop as in Spec, played    *)
(* for RunFrames frames from one state, long enough for a whole dodge, two  *)
(* attacks and a whole jump of fighter 0.  Fighter 0 holds any of           *)
(* RunKeyChoices in each frame and never walks, so rect.x tells how many    *)
(* dodge steps it has made; fighter 1 stands still within reach, so its     *)
(* health tells how many of fighter 0's attacks have landed.                *)

\* the fighters met in the middle after seven attacks landed on fighter 1
\* (100 - 7 * 12) and every cooldown ran out
RunStart == With(Clinch, Clinch[0], [Clinch[1] EXCEPT !.health = 16])

RunKeyChoices == {
    {}, {"jump"}, {"dodge"}, {"attack"}, {"dodge", "attack"},
    {"jump", "dodge", "attack"}
}
RunSnapshots == {KeysOf(0, a0) : a0 \in RunKeyChoices}

InitRun ==
    /\ players = RunStart
    /\ file = AbsentFile
    /\ keys_pressed = {}
    /\ pc = "events"
    /\ frame = 0
    /\ winner = NoWinner
    /\ hits = NoHits
    /\ io_log = <<>>

\* the key snapshot and the per-fighter updates of one more frame, the
\* snapshot being one of snapshots and the frame one of the first limit
PlayFrame(limit, snapshots) ==
    /\ pc = "events"
    /\ frame < limit
    /\ \E keys \in snapshots :
        /\ keys_pressed' = keys
        /\ players' = [i \in Idx |-> update_fighter(players[i], controls[i], keys)]
    /\ pc' = "resolve"
    /\ frame' = frame + 1
    /\ UNCHANGED <<winner, hits, file, io_log>>

RunUpdateFighters == PlayFrame(RunFrames, RunSnapshots)

NextRun == Cancel \/ RunUpdateFighters \/ ResolveHits \/ Knockout \/ NextFrame

SpecRun == InitRun /\ [][NextRun]_vars

(* ---------------- a round of skills ------------------------------------ *)
(* A fourth specification: the same frames played for SkillFrames frames,   *)
(* long enough for two skills of fighter 0 and the cooldown after the       *)
(* second.  Fighter 0 holds the skill key or nothing and fighter 1 stands   *)
(* still, out of reach (the round goes on) or within reach (it ends with    *)
(* the first skill).                                                        *)
SkillSnapshots == {KeysOf(0, {}), KeysOf(0, {"skill"})}

\* the fighters met in the middle after two skills and two attacks landed
\* on fighter 1 (100 - 2 * 25 - 2 * 12) and every cooldown ran out
SkillStart == With(Clinch, Clinch[0], [Clinch[1] EXCEPT !.health = 26])

InitSkill ==
    /\ players \in {Opening, SkillStart}
    /\ file = AbsentFile
    /\ keys_pressed = {}
    /\ pc = "events"
    /\ frame = 0
    /\ winner = NoWinner
    /\ hits = NoHits
    /\ io_log = <<>>

SkillUpdateFighters == PlayFrame(SkillFrames, SkillSnapshots)

NextSkill == Cancel \/ SkillUpdateFighters \/ ResolveHits \/ Knockout \/ NextFrame

SpecSkill == InitSkill /\ [][NextSkill]_vars

(* ======================= the claims ==================================== *)
Frozen == {"knockout", "done", "crashed"}
Ended == {"done", "crashed"}
UpdateCalls == SelectSeq(io_log, LAMBDA o : o.op = "update_leaderboard")

(* C1 as stated: in every state, the knockout frame included, each          *)
(* fighter's health lies in 0 .. MAX_HEALTH.                                *)
C1_HealthInRange ==
    \A i \in Idx : 0 <= players[i].health /\ players[i].health <= MAX_HEALTH

(* C1 amended: health never exceeds MAX_HEALTH and never drops below        *)
(* 1 - ATTACK_DAMAGE - SKILL_DAMAGE; it is at least 1 wherever the round    *)
(* goes on, and at most 0 only after the hit resolution of the frame that   *)
(* ends the round, where it may be negative.                                *)
C1_HealthBounds ==
    \A i \in Idx :
        /\ players[i].health <= MAX_HEALTH
        /\ players[i].health >= 1 - ATTACK_DAMAGE - SKILL_DAMAGE
        /\ players[i].health <= 0 => pc \in Frozen

\* a knockout that leaves the loser at the lowest health possible
C1_Witness ==
    /\ pc \in Ended
    /\ \E i \in Idx :
        /\ players[i].health = 1 - ATTACK_DAMAGE - SKILL_DAMAGE
        /\ hits.attack[Other(i)] /\ hits.skill[Other(i)]

(* C2: a fighter that is dodging when the hits are resolved loses no health *)
(* in that frame, and neither the attack nor the skill of the opponent      *)
(* reports a hit.                                                           *)
C2_DodgeTakesNoDamage ==
    [][\A i \in Idx :
        (pc = "resolve" /\ players[i].is_dodging) =>
            /\ players'[i].health = players[i].health
            /\ ~hits'.attack[Other(i)]
            /\ ~hits'.skill[Other(i)]]_vars

\* the opponent attacked and used the skill in this frame, with both
\* hitboxes over the dodging fighter
C2_Witness ==
    /\ pc = "knockout"
    /\ \E i \in Idx :
        LET o == players[Other(i)]
        IN  /\ players[i].is_dodging
            /\ Held(keys_pressed, controls[Other(i)].attack)
            /\ Held(keys_pressed, controls[Other(i)].skill)
            /\ o.attack_cooldown = ATTACK_COOLDOWN
            /\ o.skill_cooldown = SKILL_COOLDOWN
            /\ colliderect(attack_rect(o), rect(players[i]))
            /\ colliderect(skill_rect(o), rect(players[i]))

(* C3: when both fighters are at health <= 0 after the hit resolution of a  *)
(* frame, the round ends in that frame and fighter 1 is the winner.         *)
C3_DoubleKnockout ==
    (players[0].health <= 0 /\ players[1].health <= 0) =>
        /\ pc \in Frozen
        /\ pc \in Ended => winner = 1

\* both attacks landed in the frame that ended the round
C3_Witness ==
    /\ pc \in Ended
    /\ players[0].health <= 0 /\ players[1].health <= 0
    /\ hits.attack[0] /\ hits.attack[1]
    /\ winner = 1

(* C4: the round goes on while nobody is down and ends in the first frame   *)
(* whose hit resolution leaves a fighter at health <= 0; the winner is the  *)
(* opponent of the first such fighter in index order, and                   *)
(* update_leaderboard is called exactly once, in that frame, with the       *)
(* winner's name.                                                           *)
C4_RoundEnd ==
    /\ pc \notin Ended =>
        /\ UpdateCalls = <<>>
        /\ winner = NoWinner
        /\ pc # "knockout" => ~KnockedOut(players)
    /\ pc \in Ended =>
        /\ KnockedOut(players)
        /\ winner = (IF players[0].health <= 0 THEN 1 ELSE 0)
        /\ UpdateCalls = <<IoOp("update_leaderboard", names[winner])>>

\* fighter 1 goes down in the second frame played, not in the first
C4_Witness ==
    /\ pc = "done"
    /\ frame = 2
    /\ players[1].health <= 0 /\ players[0].health > 0
    /\ winner = 0
    /\ UpdateCalls = <<IoOp("update_leaderboard", names[0])>>

(* C5: a cancellation ends the round at the event poll: no winner, no       *)
(* leaderboard operation, the file untouched, and no fighter update or hit  *)
(* resolution in that frame.                                                *)
C5_Cancel ==
    [][pc' = "cancelled" =>
        /\ pc = "events"
        /\ players' = players
        /\ hits' = hits
        /\ frame' = frame
        /\ file' = file
        /\ io_log' = <<>>
        /\ winner' = NoWinner]_vars

\* a round cancelled after its first frame, where some key snapshot would
\* have knocked a fighter out in the frame that was not played
C5_Witness ==
    /\ pc = "cancelled"
    /\ frame >= 1
    /\ \E keys \in KeySnapshots :
        KnockedOut(resolve_hits([i \in Idx |->
            update_fighter(players[i], controls[i], keys)], keys).players)

(* C6: attempt_special_skill called with the skill key held, the cooldown   *)
(* at 0 and less energy than the skill costs reports no hit and leaves      *)
(* energy and skill_cooldown as they were.                                  *)
C6_FailedSkillIsFree ==
    [][(/\ pc = "call" /\ pc' = "attempt_special_skill"
        /\ players[0].energy < SKILL_ENERGY_COST * ENERGY_SCALE
        /\ players[0].skill_cooldown = 0
        /\ Held(keys_pressed, controls[0].skill)) =>
            /\ ~hits'.skill[0]
            /\ players'[0].energy = players[0].energy
            /\ players'[0].skill_cooldown = players[0].skill_cooldown]_vars

\* the call returned with the key held, one tenth of a point short of the
\* cost, the opponent inside the hitbox and not dodging
C6_Witness ==
    /\ pc = "attempt_special_skill"
    /\ Held(keys_pressed, controls[0].skill)
    /\ players[0].energy = SKILL_ENERGY_COST * ENERGY_SCALE - 1
    /\ players[0].skill_cooldown = 0
    /\ colliderect(skill_rect(players[0]), rect(players[1]))
    /\ ~players[1].is_dodging
    /\ ~hits.skill[0]

(* C7: in the hit resolution of a frame attack_cooldown becomes             *)
(* ATTACK_COOLDOWN exactly when it was 0 and the attack key is held,        *)
(* whatever the attack meets; when it was positive it drops by exactly 1,   *)
(* at 0 without the key it stays 0, and no other step changes it.           *)
C7_AttackCooldown ==
    [][\A i \in Idx :
        LET a == players[i].attack_cooldown
            b == players'[i].attack_cooldown
        IN  IF pc = "resolve"
            THEN b = (IF a > 0 THEN a - 1
                      ELSE IF Held(keys_pressed, controls[i].attack)
                           THEN ATTACK_COOLDOWN ELSE 0)
            ELSE b = a]_vars

\* both fighters attacked in this frame: fighter 0's attack landed, fighter
\* 1's was dodged although its hitbox covers fighter 0
C7_Witness ==
    /\ pc = "knockout"
    /\ \A i \in Idx : players[i].attack_cooldown = ATTACK_COOLDOWN
    /\ hits.attack[0]
    /\ ~hits.attack[1]
    /\ players[0].is_dodging
    /\ colliderect(attack_rect(players[1]), rect(players[0]))

(* C8 as stated, dodge_cooldown being the value the dodge update finds: a   *)
(* dodge begins only on the ground with dodge_cooldown = 0, and with the    *)
(* dodge key held while airborne or while dodge_cooldown > 0 the fighter    *)
(* ends the update as it would without the key.                             *)
C8_DodgeOnlyAtZero ==
    [][(pc = "events" /\ pc' = "resolve") =>
        \A i \in Idx :
            LET b == players[i]
                a == players'[i]
                c == controls[i]
                k == keys_pressed'
            IN  /\ (~b.is_dodging /\ a.is_dodging) =>
                        (a.on_ground /\ b.dodge_cooldown = 0)
                /\ (Held(k, c.dodge) /\ (~a.on_ground \/ b.dodge_cooldown > 0)) =>
                        a = update_fighter(b, c, k \ {c.dodge})]_vars

(* C8 amended: handle_dodge decrements dodge_cooldown before it looks at    *)
(* it, so a dodge begins only with the key held, on the ground and with     *)
(* dodge_cooldown at most 1 on entry (0 after the decrement), and it then   *)
(* reloads dodge_timer and dodge_cooldown; with the key held while airborne *)
(* or while dodge_cooldown > 1 on entry the fighter ends the update as it   *)
(* would without the key.                                                   *)
C8_DodgeStart ==
    [][(pc = "events" /\ pc' = "resolve") =>
        \A i \in Idx :
            LET b == players[i]
                a == players'[i]
                c == controls[i]
                k == keys_pressed'
            IN  /\ (~b.is_dodging /\ a.is_dodging) =>
                        /\ Held(k, c.dodge)
                        /\ a.on_ground
                        /\ b.dodge_cooldown <= 1
                        /\ a.dodge_timer = DODGE_DURATION
                        /\ a.dodge_cooldown = DODGE_COOLDOWN
                /\ (Held(k, c.dodge) /\ (~a.on_ground \/ b.dodge_cooldown > 1)) =>
                        a = update_fighter(b, c, k \ {c.dodge})]_vars

\* one fighter has just begun a dodge; the other holds the dodge key with
\* the cooldown at 0 but left the ground in this frame and does not dodge
C8_Witness ==
    /\ pc = "resolve"
    /\ \E i \in Idx :
        /\ players[i].is_dodging
        /\ players[i].dodge_timer = DODGE_DURATION
        /\ Held(keys_pressed, controls[Other(i)].dodge)
        /\ ~players[Other(i)].on_ground
        /\ ~players[Other(i)].is_dodging
        /\ players[Other(i)].dodge_cooldown = 0

(* C9: in every state each fighter's energy lies in 0 .. MAX_ENERGY.        *)
C9_EnergyInRange ==
    \A i \in Idx :
        0 <= players[i].energy /\ players[i].energy <= MAX_ENERGY * ENERGY_SCALE

\* one fighter activated the skill in this frame; the other is back at
\* MAX_ENERGY during its cooldown, where the regeneration since its
\* activation would have passed the cap
C9_Witness ==
    /\ pc = "knockout"
    /\ \E i \in Idx :
        /\ players[i].skill_cooldown = SKILL_COOLDOWN
        /\ players[i].energy = (MAX_ENERGY - SKILL_ENERGY_COST) * ENERGY_SCALE
        /\ players[Other(i)].skill_cooldown > 0
        /\ players[Other(i)].energy = MAX_ENERGY * ENERGY_SCALE
        /\ (MAX_ENERGY - SKILL_ENERGY_COST) * ENERGY_SCALE
             + ENERGY_REGEN_RATE * (SKILL_COOLDOWN - players[Other(i)].skill_cooldown)
           > MAX_ENERGY * ENERGY_SCALE

(* C10: in every state each fighter's rect.x lies in                        *)
(* 0 .. WIDTH - rect.width.                                                 *)
C10_XInArena ==
    \A i \in Idx : 0 <= players[i].x /\ players[i].x <= WIDTH - RECT_WIDTH

\* a fighter in the middle of a dodge towards the wall it touches
C10_Witness ==
    \E i \in Idx :
        /\ players[i].is_dodging
        /\ players[i].dodge_timer < DODGE_DURATION
        /\ \/ players[i].x = 0 /\ ~players[i].facing_right
           \/ players[i].x = WIDTH - RECT_WIDTH /\ players[i].facing_right

(* C11: loading the leaderboard never fails -- whatever leaderboard.json    *)
(* holds when a fighter has gone down, load_leaderboard returns the entries *)
(* sorted by wins or the empty list -- and so a round that ends with a      *)
(* winner never aborts with an error.                                       *)
C11_LoadNeverFails ==
    /\ (pc = "knockout" /\ KnockedOut(players)) =>
            LET l == load_leaderboard(file)
            IN  /\ ~l.raised
                /\ l.entries = <<>> \/ l.entries = SortByWins(file.entries)
    /\ pc # "crashed"

\* the wins recorded for name n in the board s (0 when n is not on it)
WinsOf(s, n) ==
    IF \E k \in 1..Len(s) : s[k].name = n
    THEN s[CHOOSE k \in 1..Len(s) : s[k].name = n].wins
    ELSE 0
NamesIn(s) == {s[k].name : k \in 1..Len(s)}
IsSortedByWins(s) == \A j, k \in 1..Len(s) : j < k => s[j].wins >= s[k].wins
\* the board a file stands for: its entries, or none when it is absent or corrupted
BoardOf(f) == IF f.kind = "list" THEN f.entries ELSE <<>>

(* C12: for every prior content of leaderboard.json, once the winner's win  *)
(* has been recorded (the write itself succeeding) a load returns a board   *)
(* sorted by wins descending on which the winner has its previous count     *)
(* plus 1 (1 if it was not on the board) and every other entry its previous *)
(* count.                                                                   *)
C12_RecordWinRoundTrip ==
    [][(/\ pc = "knockout" /\ pc' \in Ended
        /\ file' = update_leaderboard(names[winner'], file, "ok").file) =>
            LET n == names[winner']
                l == load_leaderboard(file')
            IN  /\ ~l.raised
                /\ IsSortedByWins(l.entries)
                /\ NamesIn(l.entries) = NamesIn(BoardOf(file)) \cup {n}
                /\ WinsOf(l.entries, n) = WinsOf(BoardOf(file), n) + 1
                /\ \A m \in NamesIn(BoardOf(file)) \ {n} :
                        WinsOf(l.entries, m) = WinsOf(BoardOf(file), m)]_vars

\* the opponent's rectangle touches the far edge of a hitbox of that range
Touches(self, opponent, range) ==
    IF self.facing_right
    THEN opponent.x = self.x + RECT_WIDTH + range
    ELSE opponent.x + RECT_WIDTH = self.x - range
\* the opponent's rectangle reaches into the columns of a hitbox of that range
InColumns(self, opponent, range) ==
    IF self.facing_right
    THEN opponent.x < self.x + RECT_WIDTH + range /\ opponent.x + RECT_WIDTH > self.x + RECT_WIDTH
    ELSE opponent.x + RECT_WIDTH > self.x - range /\ opponent.x < self.x
\* the opponent's rectangle reaches into the rows of a hitbox with that inset
InRows(self, opponent, inset) ==
    /\ self.y + inset < opponent.y + RECT_HEIGHT
    /\ opponent.y < self.y + RECT_HEIGHT - inset
\* the call finds the key held and nothing that keeps the attack / skill back
AttackReady ==
    /\ pc = "call" /\ pc' = "attempt_attack"
    /\ players[0].attack_cooldown = 0
    /\ Held(keys_pressed, controls[0].attack)
SkillReady ==
    /\ pc = "call" /\ pc' = "attempt_special_skill"
    /\ players[0].skill_cooldown = 0
    /\ players[0].energy >= SKILL_ENERGY_COST * ENERGY_SCALE
    /\ Held(keys_pressed, controls[0].skill)

(* C13 as stated: an attack or skill whose hitbox only touches the          *)
(* opponent's rectangle along its far edge reports a hit when the opponent  *)
(* is not dodging.                                                          *)
C13_TouchingHits ==
    [][/\ (AttackReady /\ Touches(players[0], players[1], ATTACK_RANGE)
              /\ ~players[1].is_dodging) => hits'.attack[0]
       /\ (SkillReady /\ Touches(players[0], players[1], skill_range)
              /\ ~players[1].is_dodging) => hits'.skill[0]]_vars

(* C13 amended: the hit test is strict.  An attack or skill that goes off   *)
(* reports a hit exactly when the opponent is not dodging and its rectangle *)
(* shares area with the hitbox; a rectangle that only touches the hitbox's  *)
(* edge is not hit, although the cooldown (and the skill's energy) is spent.*)
C13_StrictHitTest ==
    [][/\ AttackReady =>
            /\ hits'.attack[0] <=>
                    /\ InColumns(players[0], players[1], ATTACK_RANGE)
                    /\ InRows(players[0], players[1], ATTACK_INSET)
                    /\ ~players[1].is_dodging
            /\ Touches(players[0], players[1], ATTACK_RANGE) =>
                    ~hits'.attack[0] /\ players'[0].attack_cooldown = ATTACK_COOLDOWN
       /\ SkillReady =>
            /\ hits'.skill[0] <=>
                    /\ InColumns(players[0], players[1], skill_range)
                    /\ InRows(players[0], players[1], 0)
                    /\ ~players[1].is_dodging
            /\ Touches(players[0], players[1], skill_range) =>
                    ~hits'.skill[0] /\ players'[0].skill_cooldown = SKILL_COOLDOWN]_vars

\* an attack went off with the opponent, not dodging, exactly at the far
\* edge of its hitbox, and reported no hit
C13_Witness ==
    /\ pc = "attempt_attack"
    /\ Held(keys_pressed, controls[0].attack)
    /\ players[0].attack_cooldown = ATTACK_COOLDOWN
    /\ Touches(players[0], players[1], ATTACK_RANGE)
    /\ ~players[1].is_dodging
    /\ ~hits.attack[0]

(* C14: handle_movement called on a fighter that is not dodging, with       *)
(* move-left and move-right both held, ends with facing_right true and      *)
(* rect.x as it was before the call, at either wall as anywhere else.       *)
C14_LeftAndRight ==
    [][(/\ pc = "call" /\ pc' = "handle_movement"
        /\ Held(keys_pressed, controls[0].left)
        /\ Held(keys_pressed, controls[0].right)
        /\ ~players[0].is_dodging) =>
            /\ players'[0].facing_right
            /\ players'[0].x = players[0].x]_vars

\* the call returned with both keys held and the fighter at the left wall,
\* where the step to the left alone would have been cut short
C14_Witness ==
    /\ pc = "handle_movement"
    /\ Held(keys_pressed, controls[0].left)
    /\ Held(keys_pressed, controls[0].right)
    /\ ~players[0].is_dodging
    /\ players[0].x = 0
    /\ players[0].facing_right

(* C15: in every state of a round a dodging fighter has                     *)
(* 1 <= dodge_timer <= DODGE_DURATION and                                   *)
(* dodge_cooldown - dodge_timer = DODGE_COOLDOWN - DODGE_DURATION, hence    *)
(* dodge_cooldown > 0 for the whole dodge.                                  *)
C15_DodgeTimers ==
    \A i \in Idx :
        players[i].is_dodging =>
            /\ 1 <= players[i].dodge_timer
            /\ players[i].dodge_timer <= DODGE_DURATION
            /\ players[i].dodge_cooldown - players[i].dodge_timer
                 = DODGE_COOLDOWN - DODGE_DURATION
            /\ players[i].dodge_cooldown > 0

\* a dodge begun in the first frame played, one frame later
C15_Witness ==
    /\ frame = 2
    /\ \E i \in Idx :
        /\ players[i].is_dodging
        /\ players[i].dodge_timer = DODGE_DURATION - 1
        /\ players[i].dodge_cooldown = DODGE_COOLDOWN - 1

\* both fighters hold the attack key with the cooldown over, each stands in
\* the other's attack hitbox, and neither is dodging
BothAttack ==
    \A i \in Idx :
        /\ players[i].attack_cooldown = 0
        /\ Held(keys_pressed, controls[i].attack)
        /\ colliderect(attack_rect(players[i]), rect(players[Other(i)]))
        /\ ~players[i].is_dodging
\* the same for the skill, with the energy it costs
BothSkill ==
    \A i \in Idx :
        /\ players[i].skill_cooldown = 0
        /\ players[i].energy >= SKILL_ENERGY_COST * ENERGY_SCALE
        /\ Held(keys_pressed, controls[i].skill)
        /\ colliderect(skill_rect(players[i]), rect(players[Other(i)]))
        /\ ~players[i].is_dodging
\* the health a fighter loses to the hits reported in a frame
Taken(h, i) ==
    (IF h.attack[Other(i)] THEN ATTACK_DAMAGE ELSE 0)
      + (IF h.skill[Other(i)] THEN SKILL_DAMAGE ELSE 0)

(* C16: the hit resolution of a frame gives neither fighter priority: when  *)
(* both have a ready attack (or skill), hold the key, stand in each other's *)
(* hitbox and neither is dodging, both attacks (or skills) report a hit and *)
(* both fighters lose the damage in that frame, fighter 1's hit landing     *)
(* also when fighter 0's hit has already brought it to health <= 0.         *)
C16_NoPriority ==
    [][pc = "resolve" =>
        /\ BothAttack => hits'.attack[0] /\ hits'.attack[1]
        /\ BothSkill => hits'.skill[0] /\ hits'.skill[1]
        /\ \A i \in Idx : players'[i].health = players[i].health - Taken(hits', i)
        /\ (BothAttack /\ BothSkill) =>
                \A i \in Idx : players'[i].health
                                 = players[i].health - ATTACK_DAMAGE - SKILL_DAMAGE]_vars

\* all four hits landed in one frame, fighter 1's after fighter 0's attack
\* had already brought it to health <= 0
C16_Witness ==
    /\ pc = "knockout"
    /\ \A i \in Idx : hits.attack[i] /\ hits.skill[i]
    /\ players[1].health + SKILL_DAMAGE <= 0
    /\ players[0].health <= 0

(* C17: attempt_special_skill called with the key held, skill_cooldown = 0  *)
(* and energy >= SKILL_ENERGY_COST lowers energy by exactly                 *)
(* SKILL_ENERGY_COST and sets skill_cooldown = SKILL_COOLDOWN, whether the  *)
(* skill hits, misses or is dodged; called with skill_cooldown > 0 it       *)
(* reports no hit, leaves energy as it was and lowers skill_cooldown by 1.  *)
C17_SkillActivation ==
    [][(pc = "call" /\ pc' = "attempt_special_skill") =>
        /\ SkillReady =>
            /\ players'[0].energy = players[0].energy - SKILL_ENERGY_COST * ENERGY_SCALE
            /\ players'[0].skill_cooldown = SKILL_COOLDOWN
        /\ players[0].skill_cooldown > 0 =>
            /\ ~hits'.skill[0]
            /\ players'[0].energy = players[0].energy
            /\ players'[0].skill_cooldown = players[0].skill_cooldown - 1]_vars

\* a skill that went off with exactly the energy it costs and was dodged by
\* an opponent inside its hitbox
C17_Witness ==
    /\ pc = "attempt_special_skill"
    /\ Held(keys_pressed, controls[0].skill)
    /\ players[0].skill_cooldown = SKILL_COOLDOWN
    /\ players[0].energy = 0
    /\ players[1].is_dodging
    /\ colliderect(skill_rect(players[0]), rect(players[1]))
    /\ ~hits.skill[0]

(* C18: handle_movement applies a jump impulse (velocity_y = -JUMP_STRENGTH *)
(* and on_ground = false) only when the jump key is held and the fighter is *)
(* on the ground and not dodging; called on an airborne fighter it leaves   *)
(* velocity_y as it was, whatever keys are held.                            *)
C18_JumpOnlyFromGround ==
    [][(pc = "call" /\ pc' = "handle_movement") =>
        /\ (\/ players'[0].velocity_y # players[0].velocity_y
            \/ players'[0].on_ground # players[0].on_ground) =>
                /\ Held(keys_pressed, controls[0].jump)
                /\ players[0].on_ground
                /\ ~players[0].is_dodging
                /\ players'[0].velocity_y = -JUMP_STRENGTH
                /\ ~players'[0].on_ground
        /\ ~players[0].on_ground =>
                /\ players'[0].velocity_y = players[0].velocity_y
                /\ ~players'[0].on_ground]_vars

\* the call returned with the impulse applied
C18_Witness ==
    /\ pc = "handle_movement"
    /\ Held(keys_pressed, controls[0].jump)
    /\ ~players[0].is_dodging
    /\ ~players[0].on_ground
    /\ players[0].velocity_y = -JUMP_STRENGTH
    /\ players[0].y = StandY

C20_DodgeOverridesMovement ==
    [][(pc = "call" /\ players[0].is_dodging) =>
        /\ pc' = "handle_movement" => players'[0] = players[0]
        /\ pc' = "handle_dodge" =>
            /\ players'[0].facing_right = players[0].facing_right
            /\ players'[0].on_ground = players[0].on_ground
            /\ players'[0].velocity_y = players[0].velocity_y
            /\ players'[0].x =
                 ClampX(players[0].x + (IF players[0].facing_right
                                        THEN DODGE_SPEED ELSE -DODGE_SPEED))]_vars

\* handle_movement returned on a dodging fighter that faces right on the
\* ground while move-left and jump are held
C20_Witness ==
    /\ pc = "handle_movement"
    /\ players[0].is_dodging
    /\ Held(keys_pressed, controls[0].left)
    /\ Held(keys_pressed, controls[0].jump)
    /\ ~Held(keys_pressed, controls[0].right)
    /\ players[0].facing_right
    /\ players[0].on_ground
    /\ players[0].x = 420

\* the dodge steps fighter 0 has made in the long round, where it never walks
DodgeSteps == (players[0].x - RunStart[0].x) \div DODGE_SPEED

(* C21: a dodge sets dodge_timer = DODGE_DURATION and dodge_cooldown =      *)
(* DODGE_COOLDOWN when it starts, lasts for the hit resolution of exactly   *)
(* DODGE_DURATION frames and ends, with dodge_timer = 0, in the dodge       *)
(* update of the frame after them, whatever keys are held meanwhile.  In    *)
(* the long round: fighter 0 is dodging exactly while a dodge has started   *)
(* (dodge_cooldown > 0) fewer than DODGE_DURATION frames ago, it has then   *)
(* made as many dodge steps as frames have passed since, and it is never    *)
(* found out of a dodge with a part of the steps made.                      *)
C21_DodgeLasts ==
    LET f == players[0]
        since == DODGE_COOLDOWN - f.dodge_cooldown
    IN  /\ f.x = RunStart[0].x + DODGE_SPEED * DodgeSteps
        /\ DodgeSteps \in 0..DODGE_DURATION
        /\ f.is_dodging <=> (f.dodge_cooldown > 0 /\ since < DODGE_DURATION)
        /\ f.is_dodging =>
            /\ DodgeSteps = since
            /\ f.dodge_timer = DODGE_DURATION - since
        /\ ~f.is_dodging =>
            /\ f.dodge_timer = 0
            /\ DodgeSteps = (IF f.dodge_cooldown > 0 THEN DODGE_DURATION ELSE 0)
        /\ f.dodge_cooldown > 0 => frame >= 1 + since

\* a dodge begun in the first frame has just ended, in the sixteenth frame,
\* with the dodge key held
C21_Witness ==
    /\ pc = "resolve"
    /\ frame = DODGE_DURATION + 1
    /\ Held(keys_pressed, controls[0].dodge)
    /\ ~players[0].is_dodging
    /\ players[0].dodge_timer = 0
    /\ players[0].dodge_cooldown = DODGE_COOLDOWN - DODGE_DURATION
    /\ DodgeSteps = DODGE_DURATION

(* C22: in every state of a round a fighter whose skill_cooldown is 0 has   *)
(* energy >= SKILL_ENERGY_COST, so the energy test of                       *)
(* attempt_special_skill never holds back a skill whose cooldown is over.   *)
C22_EnergyBackInTime ==
    \A i \in Idx :
        players[i].skill_cooldown = 0 =>
            players[i].energy >= SKILL_ENERGY_COST * ENERGY_SCALE

\* fighter 0's second skill has landed in the first frame after the
\* cooldown of the first, which it used in the first frame of all
C22_Witness ==
    /\ pc = "knockout"
    /\ frame = SKILL_COOLDOWN + 2
    /\ hits.skill[0]
    /\ players[1].health = SkillStart[1].health - 2 * SKILL_DAMAGE
    /\ players[0].skill_cooldown = SKILL_COOLDOWN

\* the attacks of fighter 0 that have landed in the long round, where
\* nothing else takes health from fighter 1
AttacksLanded == (RunStart[1].health - players[1].health) \div ATTACK_DAMAGE

(* C23: two attack activations of a fighter are at least                    *)
(* ATTACK_COOLDOWN + 1 frames apart, also with the attack key held in every *)
(* frame.  In the long round: an attack of fighter 0 lands only in a frame  *)
(* in which it went off (attack_cooldown = ATTACK_COOLDOWN afterwards), the *)
(* n-th attack to land does so in frame 1 + (n - 1) * (ATTACK_COOLDOWN + 1) *)
(* at the earliest, and a cooldown that has run down to c was started       *)
(* ATTACK_COOLDOWN - c hit resolutions before.                              *)
C23_AttacksApart ==
    /\ hits.attack[0] => players[0].attack_cooldown = ATTACK_COOLDOWN
    /\ players[1].health = RunStart[1].health - ATTACK_DAMAGE * AttacksLanded
    /\ AttacksLanded >= 1 =>
            frame >= 1 + (AttacksLanded - 1) * (ATTACK_COOLDOWN + 1)
    /\ players[0].attack_cooldown > 0 =>
            frame >= 1 + (IF pc = "resolve" THEN 1 ELSE 0)
                       + ATTACK_COOLDOWN - players[0].attack_cooldown

\* the second attack has landed at the earliest: the first in frame 1, the
\* second in frame ATTACK_COOLDOWN + 2
C23_Witness ==
    /\ pc = "knockout"
    /\ frame = ATTACK_COOLDOWN + 2
    /\ hits.attack[0]
    /\ AttacksLanded = 2
    /\ Held(keys_pressed, controls[0].attack)

(* C24: in every state of a round a dodging fighter is on the ground, with  *)
(* rect.bottom = GROUND_LEVEL.                                              *)
C24_DodgeOnGround ==
    \A i \in Idx :
        players[i].is_dodging =>
            /\ players[i].on_ground
            /\ players[i].y + RECT_HEIGHT = GROUND_LEVEL

\* fighter 0 in the middle of a dodge, in a frame in which jump was held
C24_Witness ==
    /\ pc = "resolve"
    /\ Held(keys_pressed, controls[0].jump)
    /\ players[0].is_dodging
    /\ players[0].dodge_timer < DODGE_DURATION
    /\ players[0].on_ground

\* the height a jump has gained when k of its gravity steps are done
JumpHeight(k) == JUMP_STRENGTH * k - (k * (k + 1)) \div 2

(* C25: every jump ends: a fighter that jumps in frame t is airborne at the *)
(* end of the frames t .. t + 2*JUMP_STRENGTH - 3 and on the ground again   *)
(* (rect.bottom = GROUND_LEVEL, velocity_y = 0) at the end of frame         *)
(* t + 2*JUMP_STRENGTH - 2, whatever keys are held, and its bottom edge is  *)
(* never more than JUMP_STRENGTH*(JUMP_STRENGTH-1)/2 above the ground line. *)
(* An airborne fighter is k = velocity_y + JUMP_STRENGTH frames into its    *)
(* jump, at the height of that step; each frame takes it one step on, and   *)
(* step 2*JUMP_STRENGTH - 1 is the landing.                                 *)
C25_JumpEnds ==
    /\ [](\A i \in Idx :
            LET f == players[i]
                k == f.velocity_y + JUMP_STRENGTH
            IN  /\ f.on_ground => (f.y = StandY /\ f.velocity_y = 0)
                /\ ~f.on_ground =>
                    /\ k \in 1..(2 * JUMP_STRENGTH - 2)
                    /\ f.y = StandY - JumpHeight(k)
                    /\ frame >= k
                /\ GROUND_LEVEL - (f.y + RECT_HEIGHT)
                     <= (JUMP_STRENGTH * (JUMP_STRENGTH - 1)) \div 2)
    /\ [][\A i \in Idx :
            LET b == players[i]
                a == players'[i]
            IN  IF pc = "events" /\ pc' = "resolve"
                THEN /\ (b.on_ground /\ ~a.on_ground) =>
                            a.velocity_y = GRAVITY - JUMP_STRENGTH
                     /\ (~b.on_ground /\ b.velocity_y < JUMP_STRENGTH - 2) =>
                            ~a.on_ground /\ a.velocity_y = b.velocity_y + GRAVITY
                     /\ (~b.on_ground /\ b.velocity_y = JUMP_STRENGTH - 2) =>
                            a.on_ground /\ a.y = StandY /\ a.velocity_y = 0
                ELSE /\ a.on_ground = b.on_ground
                     /\ a.y = b.y
                     /\ a.velocity_y = b.velocity_y]_vars

\* the last airborne frame of a jump begun in the first frame, with the
\* dodge key held
C25_Witness ==
    /\ pc = "resolve"
    /\ frame = 2 * JUMP_STRENGTH - 2
    /\ ~players[0].on_ground
    /\ players[0].velocity_y = JUMP_STRENGTH - 2
    /\ players[0].y = StandY - (JUMP_STRENGTH - 1)
    /\ Held(keys_pressed, controls[0].dodge)

(* C26: health never goes up during a round; the health a fighter loses in  *)
(* one frame is 0, ATTACK_DAMAGE, SKILL_DAMAGE or their sum, all of it in   *)
(* the hit resolution, and none of it when the opponent's attack and skill  *)
(* report no hit, whatever its own attack and skill do.                     *)
C26_HealthOnlyFalls ==
    [][\A i \in Idx :
        LET loss == players[i].health - players'[i].health
        IN  /\ loss \in {0, ATTACK_DAMAGE, SKILL_DAMAGE, ATTACK_DAMAGE + SKILL_DAMAGE}
            /\ pc # "resolve" => loss = 0
            /\ (~hits'.attack[Other(i)] /\ ~hits'.skill[Other(i)]) => loss = 0]_vars

\* fighter 0's attack and skill both landed in this frame and fighter 1's
\* did not: fighter 0 is at full health, fighter 1 has lost both damages
C26_Witness ==
    /\ pc = "knockout"
    /\ hits.attack[0] /\ hits.skill[0]
    /\ ~hits.attack[1] /\ ~hits.skill[1]
    /\ players[0].health = MAX_HEALTH
    /\ players[1].health = MAX_HEALTH - ATTACK_DAMAGE - SKILL_DAMAGE

\* one attempt of fighter i, attack or skill, and the damage it does
Attempt(ps, keys, i, kind) ==
    LET r == IF kind = "attack"
             THEN attempt_attack(ps[i], ps[Other(i)], controls[i], keys)
             ELSE attempt_special_skill(ps[i], ps[Other(i)], controls[i], keys)
        amount == IF kind = "attack" THEN ATTACK_DAMAGE ELSE SKILL_DAMAGE
    IN  [j \in Idx |-> IF j = i THEN r.self ELSE Damage(ps[j], r.hit, amount)]

\* the attempts of a frame made in the order given
RECURSIVE ResolveInOrder(_, _, _)
ResolveInOrder(ps, keys, order) ==
    IF order = <<>> THEN ps
    ELSE ResolveInOrder(Attempt(ps, keys, Head(order)[1], Head(order)[2]),
                        keys, Tail(order))

\* every order of the four attempts of a frame in which each fighter's
\* attack comes before its skill; the first is the order of gameplay_loop
Orders ==
    LET a0 == <<0, "attack">>
        a1 == <<1, "attack">>
        s0 == <<0, "skill">>
        s1 == <<1, "skill">>
    IN  {<<a0, a1, s0, s1>>, <<a0, a1, s1, s0>>, <<a0, s0, a1, s1>>,
         <<a1, a0, s0, s1>>, <<a1, a0, s1, s0>>, <<a1, s1, a0, s0>>}

(* C27: the order of the hit resolution does not affect the fighters: from  *)
(* every state and key snapshot the hit resolution of a frame finds, the    *)
(* four attempts made in any order that keeps a fighter's attack before its *)
(* skill -- fighter 1's before fighter 0's, or the other way round -- leave *)
(* both fighters with the health, cooldowns and energy that the order of    *)
(* gameplay_loop leaves them with.                                          *)
C27_OrderIrrelevant ==
    pc = "resolve" =>
        \A o \in Orders :
            ResolveInOrder(players, keys_pressed, o)
                = resolve_hits(players, keys_pressed).players

\* before a hit resolution in which each fighter's attack alone brings the
\* other to health <= 0, and both also use the skill
C27_Witness ==
    /\ pc = "resolve"
    /\ BothAttack /\ BothSkill
    /\ \A i \in Idx : players[i].health <= ATTACK_DAMAGE

====
